---- MODULE Spec2Model ----
(***************************************************************************)
(* mini_downloader: chunk planning (Chunks::new and its Iterator), chunk   *)
(* fetch and save (Chunk), bulk save (ChunkVec), the per-resource job      *)
(* (Chunks::download_then_save / download_and_save / verify) and the       *)
(* batch engine (Downloader::download).                                    *)
(*                                                                         *)
(* Sizes and offsets are the program's byte counts (the 4 MiB threshold is *)
(* 4194304).  A file's content is kept as a set of extents                 *)
(* [lo, hi, src]: file offsets lo..hi-1 hold the resource's bytes          *)
(* src..src+(hi-lo)-1.  Offsets below the file's size that no extent       *)
(* covers are holes (zero bytes left by a seek past the end).  The body a  *)
(* server returns for  bytes=a-b  is the resource's bytes from a on, of    *)
(* the length the server chose to send.                                    *)
(***************************************************************************)
EXTENDS Integers, Sequences, FiniteSets, TLC

\* ------------------------------------------------------------- bounds
\* workers of the Downloader in the single-task specification
MaxWorkers == 3
\* tasks of a batch in the batch specification
MaxTasks == 2
\* workers of the Downloader in the planning specification
MaxPlanWorkers == 12
\* totals Threshold .. Threshold + PlanSpan are planned
PlanSpan == 12

\* ------------------------------------------------------------- constants
Threshold == 1024 * 1024 * 4
DEFAULT_WORKERS == 4

\* ------------------------------------------------------------- helpers
Max(S) == CHOOSE x \in S : \A y \in S : y <= x
Min2(a, b) == IF a <= b THEN a ELSE b

RECURSIVE SumSizes(_)
SumSizes(s) == IF s = <<>> THEN 0 ELSE Head(s).chunk_size + SumSizes(Tail(s))

\* ------------------------------------------------------------- the file
\* metadata.len(): the end of the last extent
FileLen(E) == IF E = {} THEN 0 ELSE Max({e.hi : e \in E})

\* what is left of the extents E outside lo..hi-1
Clip(E, lo, hi) ==
    {[lo |-> e.lo, hi |-> Min2(e.hi, lo), src |-> e.src] : e \in {x \in E : x.lo < lo}}
    \cup
    {[lo |-> IF e.lo >= hi THEN e.lo ELSE hi, hi |-> e.hi,
      src |-> IF e.lo >= hi THEN e.src ELSE e.src + (hi - e.lo)] :
         e \in {x \in E : x.hi > hi}}

ExtNext(E, a) == {c \in E : c.lo = a.hi /\ c.src = a.src + (a.hi - a.lo)}
ExtHasPrev(E, a) == \E c \in E : a \in ExtNext(E, c)

RECURSIVE RunEnd(_, _)
RunEnd(E, a) ==
    IF ExtNext(E, a) = {} THEN a.hi ELSE RunEnd(E, CHOOSE c \in ExtNext(E, a) : TRUE)

\* extents that continue each other are one extent
Merge(E) ==
    {[lo |-> a.lo, hi |-> RunEnd(E, a), src |-> a.src] : a \in {x \in E : ~ExtHasPrev(E, x)}}

\* write_all of len bytes (the resource's bytes from src on) at the cursor pos
WriteAt(E, pos, src, len) ==
    IF len = 0 THEN E
    ELSE Merge(Clip(E, pos, pos + len) \cup {[lo |-> pos, hi |-> pos + len, src |-> src]})

\* ------------------------------------------------------------- the plan
\* Chunks::new once get_content_length answered (accept_ranges, total)
ChunksNew(accept_ranges, total, w) ==
    IF ~accept_ranges \/ total < Threshold
    THEN [start |-> 0, total |-> total, chunk_size |-> total]
    ELSE [start |-> 0, total |-> total, chunk_size |-> total \div w + 1]

\* next that yields chunk_size bytes for the last chunk too
ChunksNextUnclamped(it) ==
    IF it.start >= it.total
    THEN [some |-> FALSE, it |-> it]
    ELSE [some |-> TRUE,
          chunk |-> [start |-> it.start, chunk_size |-> it.chunk_size, data |-> 0],
          it |-> [it EXCEPT !.start = it.start + it.chunk_size]]

\* next that stops only once start has passed total
ChunksNextPastEnd(it) ==
    IF it.start > it.total
    THEN [some |-> FALSE, it |-> it]
    ELSE LET size == Min2(it.chunk_size, it.total - it.start)
         IN  [some |-> TRUE,
              chunk |-> [start |-> it.start, chunk_size |-> size, data |-> 0],
              it |-> [it EXCEPT !.start = it.start + size]]

\* Iterator::next of Chunks: the chunk yielded, if any, and the iterator after
ChunksNext(it) ==
    IF it.start >= it.total
    THEN [some |-> FALSE, it |-> it]
    ELSE LET size == Min2(it.chunk_size, it.total - it.start)
         IN  [some |-> TRUE,
              chunk |-> [start |-> it.start, chunk_size |-> size, data |-> 0],
              it |-> [it EXCEPT !.start = it.start + size]]

\* ------------------------------------------------------------- state
VARIABLES
    policy,     \* Downloader.policy
    workers,    \* Downloader.workers
    remote,     \* per task: what the server of the task's url answers
    disk,       \* per task: the destination file, [state, ext]
    cursor,     \* per task: the position of the job's File handle
    lock,       \* per task: holder of the Mutex<File>: 0 free, i a chunk task, -1 verify
    spawned,    \* Downloader::download: number of jobs spawned (Len(futures))
    joined,     \* Downloader::download: number of futures joined
    result,     \* Downloader::download: "none" while it runs, then "ok" or "err"
    jpc,        \* per task: where the job is
    probe,      \* per task: outcome of Chunks::new in the job's join!
    created,    \* per task: outcome of File::create in the job's join!
    chunks,     \* per task: the Chunks value (self)
    iter,       \* per task: the copy of self the for loop iterates
    tasks,      \* per task: the tasks vector of the running function
    cvec,       \* per task: ChunkVec.chunks
    jidx,       \* per task: number of tasks joined by the running join loop
    pb,         \* per task: position of the progress bar
    pblen       \* per task: length of the progress bar, -1 for u64::MAX

vars == <<policy, workers, remote, disk, cursor, lock, spawned, joined, result,
          jpc, probe, created, chunks, iter, tasks, cvec, jidx, pb, pblen>>

engineVars == <<spawned, joined, result>>
confVars == <<policy, workers, remote>>

Jobs == 1 .. Len(remote)
NoChunks == [start |-> 0, total |-> 0, chunk_size |-> 0]
Policies == {"DownloadThenSave", "DownloadAndSave"}

Remotes(totals) ==
    {[ok |-> FALSE, accept_ranges |-> FALSE, total |-> 0]}
    \cup [ok : {TRUE}, accept_ranges : BOOLEAN, total : totals]

InitWith(rs, ws, ps, files) ==
    /\ remote \in rs
    /\ workers \in ws
    /\ policy \in ps
    /\ disk \in [Jobs -> [state : files, ext : {{}}]]
    /\ cursor = [j \in Jobs |-> 0]
    /\ lock = [j \in Jobs |-> 0]
    /\ spawned = 0
    /\ joined = 0
    /\ result = "none"
    /\ jpc = [j \in Jobs |-> "idle"]
    /\ probe = [j \in Jobs |-> "pending"]
    /\ created = [j \in Jobs |-> "pending"]
    /\ chunks = [j \in Jobs |-> NoChunks]
    /\ iter = [j \in Jobs |-> NoChunks]
    /\ tasks = [j \in Jobs |-> <<>>]
    /\ cvec = [j \in Jobs |-> <<>>]
    /\ jidx = [j \in Jobs |-> 0]
    /\ pb = [j \in Jobs |-> 0]
    /\ pblen = [j \in Jobs |-> -1]

\* one task, any resource, either policy
JobTotals == {0, 1000, Threshold, 10000000}
Init ==
    InitWith({<<r>> : r \in Remotes(JobTotals)}, 1 .. MaxWorkers, Policies,
             {"absent", "old"})

\* ------------------------------------------------------------- the engine
\* Downloader::download, the for loop over the tasks: tokio::spawn of one job
EngineSpawn ==
    /\ spawned < Len(remote)
    /\ spawned' = spawned + 1
    /\ jpc' = [jpc EXCEPT ![spawned + 1] = "init"]
    /\ UNCHANGED <<confVars, disk, cursor, lock, joined, result, probe, created,
                   chunks, iter, tasks, cvec, jidx, pb, pblen>>

\* a join loop that returns after its first future
JoinsFirst(n) == n >= 0

\* the join loop has reached its last future
JoinsAll(n) == n + 1 = Len(remote)

\* a join that returns the failure of whichever job has failed, in any position
EngineJoinAnyFailed ==
    /\ spawned = Len(remote)
    /\ result = "none"
    /\ joined < Len(remote)
    /\ IF \E k \in Jobs : jpc[k] = "failed"
       THEN /\ result' = "err"
            /\ UNCHANGED joined
       ELSE /\ jpc[joined + 1] = "done"
            /\ joined' = joined + 1
            /\ result' = IF JoinsAll(joined) THEN "ok" ELSE "none"
    /\ UNCHANGED <<confVars, disk, cursor, lock, spawned, jpc, probe, created,
                   chunks, iter, tasks, cvec, jidx, pb, pblen>>

\* Downloader::download, for future in futures { future.await??; }
EngineJoin ==
    /\ spawned = Len(remote)
    /\ result = "none"
    /\ joined < Len(remote)
    /\ jpc[joined + 1] \in {"done", "failed"}
    /\ IF jpc[joined + 1] = "done"
       THEN /\ joined' = joined + 1
            /\ result' = IF JoinsAll(joined) THEN "ok" ELSE "none"
       ELSE /\ result' = "err"
            /\ UNCHANGED joined
    /\ UNCHANGED <<confVars, disk, cursor, lock, spawned, jpc, probe, created,
                   chunks, iter, tasks, cvec, jidx, pb, pblen>>

\* ------------------------------------------------------------- the job
\* first arm of the job's tokio::join!: Chunks::new (the HEAD request)
Probe(j) ==
    /\ jpc[j] = "init"
    /\ probe[j] = "pending"
    /\ IF remote[j].ok
       THEN /\ probe' = [probe EXCEPT ![j] = "ok"]
            /\ chunks' = [chunks EXCEPT
                 ![j] = ChunksNew(remote[j].accept_ranges, remote[j].total, workers)]
       ELSE /\ probe' = [probe EXCEPT ![j] = "err"]
            /\ UNCHANGED chunks
    /\ UNCHANGED <<confVars, engineVars, disk, cursor, lock, jpc, created, iter,
                   tasks, cvec, jidx, pb, pblen>>

\* second arm of the job's tokio::join!: tokio::fs::File::create(path)
FileCreate(j) ==
    /\ jpc[j] = "init"
    /\ created[j] = "pending"
    /\ \E ok \in BOOLEAN :
         IF ok
         THEN /\ created' = [created EXCEPT ![j] = "ok"]
              /\ disk' = [disk EXCEPT ![j] = [state |-> "created", ext |-> {}]]
         ELSE /\ created' = [created EXCEPT ![j] = "err"]
              /\ UNCHANGED disk
    /\ UNCHANGED <<confVars, engineVars, cursor, lock, jpc, probe, chunks, iter,
                   tasks, cvec, jidx, pb, pblen>>

\* after the join!: chunks?, file?, then the policy's function up to its for loop
JobStart(j) ==
    /\ jpc[j] = "init"
    /\ probe[j] # "pending"
    /\ created[j] # "pending"
    /\ IF probe[j] = "err" \/ created[j] = "err"
       THEN /\ jpc' = [jpc EXCEPT ![j] = "failed"]
            /\ UNCHANGED <<pblen, iter>>
       ELSE /\ pblen' = [pblen EXCEPT ![j] = chunks[j].total]
            /\ iter' = [iter EXCEPT ![j] = chunks[j]]
            /\ jpc' = [jpc EXCEPT
                 ![j] = IF policy = "DownloadThenSave" THEN "spawn_dl" ELSE "spawn"]
    /\ UNCHANGED <<confVars, engineVars, disk, cursor, lock, probe, created, chunks,
                   tasks, cvec, jidx, pb>>

\* one turn of  for chunk in self { tasks.push(tokio::spawn(..)) }  in
\* Chunks::download_and_save and Chunks::download
SpawnChunk(j) ==
    /\ jpc[j] \in {"spawn", "spawn_dl"}
    /\ LET n == ChunksNext(iter[j])
       IN  IF n.some
           THEN /\ iter' = [iter EXCEPT ![j] = n.it]
                /\ tasks' = [tasks EXCEPT ![j] = Append(@,
                     [start |-> n.chunk.start, chunk_size |-> n.chunk.chunk_size,
                      data |-> n.chunk.data, pc |-> "fetch"])]
                /\ UNCHANGED <<jpc, jidx>>
           ELSE /\ jpc' = [jpc EXCEPT ![j] = IF jpc[j] = "spawn" THEN "join" ELSE "join_dl"]
                /\ jidx' = [jidx EXCEPT ![j] = 0]
                /\ UNCHANGED <<iter, tasks>>
    /\ UNCHANGED <<confVars, engineVars, disk, cursor, lock, probe, created, chunks,
                   cvec, pb, pblen>>

\* ------------------------------------------------------------- a chunk task
BodyLens(size) == {size, size - 1, size + 1}

\* a download that keeps whatever body came
FetchedUnchecked(len, size) == len >= 0

\* Chunk::download: the body is kept when  self.data.len() == self.chunk_size
FetchedOk(len, size) == len = size

\* a download task that goes on to save its chunk under either policy
FetchThenLock(j, i) ==
    /\ tasks[j][i].pc = "fetch"
    /\ \/ tasks' = [tasks EXCEPT ![j][i].pc = "err"]
       \/ \E len \in BodyLens(tasks[j][i].chunk_size) :
            tasks' = [tasks EXCEPT
              ![j][i].data = len,
              ![j][i].pc = IF ~FetchedOk(len, tasks[j][i].chunk_size) THEN "err"
                           ELSE "lock"]
    /\ UNCHANGED <<confVars, engineVars, disk, cursor, lock, jpc, probe, created,
                   chunks, iter, cvec, jidx, pb, pblen>>

\* Chunk::download in a spawned task: the range GET, then the length test
Fetch(j, i) ==
    /\ tasks[j][i].pc = "fetch"
    /\ \/ tasks' = [tasks EXCEPT ![j][i].pc = "err"]
       \/ \E len \in BodyLens(tasks[j][i].chunk_size) :
            tasks' = [tasks EXCEPT
              ![j][i].data = len,
              ![j][i].pc = IF ~FetchedOk(len, tasks[j][i].chunk_size) THEN "err"
                           ELSE IF policy = "DownloadThenSave" THEN "fetched"
                           ELSE "lock"]
    /\ UNCHANGED <<confVars, engineVars, disk, cursor, lock, jpc, probe, created,
                   chunks, iter, cvec, jidx, pb, pblen>>

\* a file handle shared without mutual exclusion
LockUnguarded(holder) == holder >= -1

\* Mutex::lock is granted when nobody holds the mutex
LockFree(holder) == holder = 0

\* a save that is abandoned once its job has failed
LockUnlessFailed(j, i) ==
    /\ jpc[j] # "failed"
    /\ tasks[j][i].pc = "lock"
    /\ LockFree(lock[j])
    /\ lock' = [lock EXCEPT ![j] = i]
    /\ tasks' = [tasks EXCEPT ![j][i].pc = "seek"]
    /\ UNCHANGED <<confVars, engineVars, disk, cursor, jpc, probe, created, chunks,
                   iter, cvec, jidx, pb, pblen>>

\* Chunk::save: let mut file = f.lock().await
Lock(j, i) ==
    /\ tasks[j][i].pc = "lock"
    /\ LockFree(lock[j])
    /\ lock' = [lock EXCEPT ![j] = i]
    /\ tasks' = [tasks EXCEPT ![j][i].pc = "seek"]
    /\ UNCHANGED <<confVars, engineVars, disk, cursor, jpc, probe, created, chunks,
                   iter, cvec, jidx, pb, pblen>>

\* a save that seeks relative to the cursor, SeekFrom::Current(self.start)
SeekFromCurrent(j, i) ==
    /\ tasks[j][i].pc = "seek"
    /\ \/ /\ cursor' = [cursor EXCEPT ![j] = @ + tasks[j][i].start]
          /\ tasks' = [tasks EXCEPT ![j][i].pc = "write"]
          /\ UNCHANGED lock
       \/ /\ tasks' = [tasks EXCEPT ![j][i].pc = "err"]
          /\ lock' = [lock EXCEPT ![j] = 0]
          /\ UNCHANGED cursor
    /\ UNCHANGED <<confVars, engineVars, disk, jpc, probe, created, chunks, iter,
                   cvec, jidx, pb, pblen>>

\* a save whose failed seek returns without dropping the guard
SeekLeaksLock(j, i) ==
    /\ tasks[j][i].pc = "seek"
    /\ \/ /\ cursor' = [cursor EXCEPT ![j] = tasks[j][i].start]
          /\ tasks' = [tasks EXCEPT ![j][i].pc = "write"]
          /\ UNCHANGED lock
       \/ /\ tasks' = [tasks EXCEPT ![j][i].pc = "err"]
          /\ UNCHANGED <<lock, cursor>>
    /\ UNCHANGED <<confVars, engineVars, disk, jpc, probe, created, chunks, iter,
                   cvec, jidx, pb, pblen>>

\* Chunk::save: file.seek(SeekFrom::Start(self.start)).await?
Seek(j, i) ==
    /\ tasks[j][i].pc = "seek"
    /\ \/ /\ cursor' = [cursor EXCEPT ![j] = tasks[j][i].start]
          /\ tasks' = [tasks EXCEPT ![j][i].pc = "write"]
          /\ UNCHANGED lock
       \/ /\ tasks' = [tasks EXCEPT ![j][i].pc = "err"]
          /\ lock' = [lock EXCEPT ![j] = 0]
          /\ UNCHANGED cursor
    /\ UNCHANGED <<confVars, engineVars, disk, jpc, probe, created, chunks, iter,
                   cvec, jidx, pb, pblen>>

\* a save whose guard outlives the write
WriteKeepsLock(j, i) ==
    /\ tasks[j][i].pc = "write"
    /\ LET t == tasks[j][i]
       IN  \/ /\ disk' = [disk EXCEPT ![j].ext = WriteAt(@, cursor[j], t.start, t.data)]
              /\ cursor' = [cursor EXCEPT ![j] = @ + t.data]
              /\ tasks' = [tasks EXCEPT ![j][i].pc = "inc"]
           \/ \E n \in {0, t.data \div 2} :
                /\ disk' = [disk EXCEPT ![j].ext = WriteAt(@, cursor[j], t.start, n)]
                /\ cursor' = [cursor EXCEPT ![j] = @ + n]
                /\ tasks' = [tasks EXCEPT ![j][i].pc = "err"]
    /\ UNCHANGED <<confVars, engineVars, lock, jpc, probe, created, chunks, iter, cvec,
                   jidx, pb, pblen>>

\* Chunk::save: file.write_all(&self.data).await?, and the guard dropped on return.
\* A failing write_all has written nothing or a prefix of the data.
Write(j, i) ==
    /\ tasks[j][i].pc = "write"
    /\ LET t == tasks[j][i]
       IN  \/ /\ disk' = [disk EXCEPT ![j].ext = WriteAt(@, cursor[j], t.start, t.data)]
              /\ cursor' = [cursor EXCEPT ![j] = @ + t.data]
              /\ tasks' = [tasks EXCEPT ![j][i].pc = "inc"]
           \/ \E n \in {0, t.data \div 2} :
                /\ disk' = [disk EXCEPT ![j].ext = WriteAt(@, cursor[j], t.start, n)]
                /\ cursor' = [cursor EXCEPT ![j] = @ + n]
                /\ tasks' = [tasks EXCEPT ![j][i].pc = "err"]
    /\ lock' = [lock EXCEPT ![j] = 0]
    /\ UNCHANGED <<confVars, engineVars, jpc, probe, created, chunks, iter, cvec,
                   jidx, pb, pblen>>

\* a progress bar advanced by one per chunk
PbIncOne(pos, size) == pos + 1

\* ProgressBar::inc(size)
PbInc(pos, size) == pos + size

\* pb.inc(size) after the save returned Ok, then the task ends Ok
Inc(j, i) ==
    /\ tasks[j][i].pc = "inc"
    /\ pb' = [pb EXCEPT ![j] = PbInc(@, tasks[j][i].chunk_size)]
    /\ tasks' = [tasks EXCEPT ![j][i].pc = "ok"]
    /\ UNCHANGED <<confVars, engineVars, disk, cursor, lock, jpc, probe, created,
                   chunks, iter, cvec, jidx, pblen>>

\* ------------------------------------------------------------- joins
\* a join that takes the task's chunk whatever its Result, task.await? for task.await??
TaskOkAny(t) == t.pc \in {"ok", "fetched", "err"}

\* how a joined task ended
TaskOk(t) == t.pc \in {"ok", "fetched"}
TaskEnded(t) == t.pc \in {"ok", "fetched", "err"}

\* one turn of  for task in tasks { task.await??; }  in Chunks::download_and_save,
\* Chunks::download (which pushes the chunk) and ChunkVec::save
JoinTask(j) ==
    /\ jpc[j] \in {"join", "join_dl", "join_save"}
    /\ jidx[j] < Len(tasks[j])
    /\ LET t == tasks[j][jidx[j] + 1]
       IN  /\ TaskEnded(t)
           /\ IF TaskOk(t)
              THEN /\ jidx' = [jidx EXCEPT ![j] = @ + 1]
                   /\ cvec' = [cvec EXCEPT ![j] =
                        IF jpc[j] = "join_dl"
                        THEN Append(@, [start |-> t.start, chunk_size |-> t.chunk_size,
                                        data |-> t.data])
                        ELSE @]
                   /\ UNCHANGED jpc
              ELSE /\ jpc' = [jpc EXCEPT ![j] = "failed"]
                   /\ UNCHANGED <<jidx, cvec>>
    /\ UNCHANGED <<confVars, engineVars, disk, cursor, lock, probe, created, chunks,
                   iter, tasks, pb, pblen>>

\* a join loop that awaits the first task only
JoinedSome(n, ts) == n >= Min2(1, Len(ts))

\* the join loop has awaited every task of the vector
JoinedAll(n, ts) == n = Len(ts)

\* the join loop is over: download_and_save and ChunkVec::save go on to verify,
\* Chunks::download returns the ChunkVec to ChunkVec::save
JoinEnd(j) ==
    /\ jpc[j] \in {"join", "join_dl", "join_save"}
    /\ JoinedAll(jidx[j], tasks[j])
    /\ IF jpc[j] = "join_dl"
       THEN /\ jpc' = [jpc EXCEPT ![j] = "spawn_save"]
            /\ tasks' = [tasks EXCEPT ![j] = <<>>]
       ELSE /\ jpc' = [jpc EXCEPT ![j] = "verify"]
            /\ UNCHANGED tasks
    /\ UNCHANGED <<confVars, engineVars, disk, cursor, lock, probe, created, chunks,
                   iter, cvec, jidx, pb, pblen>>

\* one turn of  for chunk in self.chunks.into_iter() { tasks.push(tokio::spawn(..)) }
\* in ChunkVec::save
SaveSpawn(j) ==
    /\ jpc[j] = "spawn_save"
    /\ IF cvec[j] # <<>>
       THEN /\ tasks' = [tasks EXCEPT ![j] = Append(@,
                 [start |-> Head(cvec[j]).start, chunk_size |-> Head(cvec[j]).chunk_size,
                  data |-> Head(cvec[j]).data, pc |-> "lock"])]
            /\ cvec' = [cvec EXCEPT ![j] = Tail(@)]
            /\ UNCHANGED <<jpc, jidx>>
       ELSE /\ jpc' = [jpc EXCEPT ![j] = "join_save"]
            /\ jidx' = [jidx EXCEPT ![j] = 0]
            /\ UNCHANGED <<tasks, cvec>>
    /\ UNCHANGED <<confVars, engineVars, disk, cursor, lock, probe, created, chunks,
                   iter, pb, pblen>>

\* ------------------------------------------------------------- verify
\* a job cancelled once Downloader::download has returned an error
VerifyLockUntilReturn(j) ==
    /\ result # "err"
    /\ jpc[j] = "verify"
    /\ LockFree(lock[j])
    /\ lock' = [lock EXCEPT ![j] = -1]
    /\ jpc' = [jpc EXCEPT ![j] = "verifying"]
    /\ UNCHANGED <<confVars, engineVars, disk, cursor, probe, created, chunks, iter,
                   tasks, cvec, jidx, pb, pblen>>

\* Chunks::verify: let file = f.lock().await
VerifyLock(j) ==
    /\ jpc[j] = "verify"
    /\ LockFree(lock[j])
    /\ lock' = [lock EXCEPT ![j] = -1]
    /\ jpc' = [jpc EXCEPT ![j] = "verifying"]
    /\ UNCHANGED <<confVars, engineVars, disk, cursor, probe, created, chunks, iter,
                   tasks, cvec, jidx, pb, pblen>>

\* Chunks::verify: the size test on metadata.len()
VerifyOk(size, total) == size = total

\* Chunks::verify: sync_all, metadata, the size test; the guard dropped on return
VerifyCheck(j) ==
    /\ jpc[j] = "verifying"
    /\ \/ jpc' = [jpc EXCEPT ![j] = "failed"]
       \/ jpc' = [jpc EXCEPT ![j] =
            IF VerifyOk(FileLen(disk[j].ext), chunks[j].total) THEN "done" ELSE "failed"]
    /\ lock' = [lock EXCEPT ![j] = 0]
    /\ UNCHANGED <<confVars, engineVars, disk, cursor, probe, created, chunks, iter,
                   tasks, cvec, jidx, pb, pblen>>

\* ------------------------------------------------------------- specifications
Next ==
    \/ EngineSpawn
    \/ EngineJoin
    \/ \E j \in Jobs : Probe(j)
    \/ \E j \in Jobs : FileCreate(j)
    \/ \E j \in Jobs : JobStart(j)
    \/ \E j \in Jobs : SpawnChunk(j)
    \/ \E j \in Jobs : JoinTask(j)
    \/ \E j \in Jobs : JoinEnd(j)
    \/ \E j \in Jobs : SaveSpawn(j)
    \/ \E j \in Jobs : VerifyLock(j)
    \/ \E j \in Jobs : VerifyCheck(j)
    \/ \E j \in Jobs : \E i \in 1 .. Len(tasks[j]) : Fetch(j, i)
    \/ \E j \in Jobs : \E i \in 1 .. Len(tasks[j]) : Lock(j, i)
    \/ \E j \in Jobs : \E i \in 1 .. Len(tasks[j]) : Seek(j, i)
    \/ \E j \in Jobs : \E i \in 1 .. Len(tasks[j]) : Write(j, i)
    \/ \E j \in Jobs : \E i \in 1 .. Len(tasks[j]) : Inc(j, i)

\* a batch of one task: the job and its chunk tasks in full
Spec == Init /\ [][Next]_vars

\* a batch of several tasks whose resources are below the threshold, unreachable
\* or unplannable, with the default workers
BatchRemotes ==
    {[ok |-> FALSE, accept_ranges |-> FALSE, total |-> 0],
     [ok |-> TRUE, accept_ranges |-> TRUE, total |-> 0],
     [ok |-> TRUE, accept_ranges |-> TRUE, total |-> 1000]}
BatchInit ==
    InitWith(UNION {[1 .. n -> BatchRemotes] : n \in 1 .. MaxTasks},
             {DEFAULT_WORKERS}, Policies, {"absent"})

SpecBatch == BatchInit /\ [][Next]_vars

\* planning alone: the job up to the end of its for loop over the plan
PlanTotals ==
    {0, 1, 1000, Threshold - 1, 10000000} \cup (Threshold .. Threshold + PlanSpan)
PlanInit ==
    InitWith({<<r>> : r \in Remotes(PlanTotals)}, 1 .. MaxPlanWorkers, Policies,
             {"absent"})

PlanNext ==
    \/ EngineSpawn
    \/ \E j \in Jobs : Probe(j)
    \/ \E j \in Jobs : FileCreate(j)
    \/ \E j \in Jobs : JobStart(j)
    \/ \E j \in Jobs : SpawnChunk(j)

SpecPlan == PlanInit /\ [][PlanNext]_vars

\* ------------------------------------------------------------- the plan's claims
\* the for loop over the plan of job j has ended: tasks[j] holds one task per descriptor
PlanDone(j) == jpc[j] \in {"join", "join_dl"}
Planning(j) == jpc[j] \in {"spawn", "spawn_dl", "join", "join_dl"}

CeilDiv(a, b) == (a + b - 1) \div b

\* C1: tiling invariant.  The descriptors the plan yields are sorted by start, the
\* first starts at 0, each one ends where the next starts, and once the iteration
\* is over their sizes sum to totalBytes (an empty plan, for totalBytes = 0, tiles
\* the empty range).
TilingInvariant ==
    \A j \in Jobs :
        Planning(j) =>
            LET d == tasks[j]
            IN  /\ Len(d) > 0 => d[1].start = 0
                /\ \A i \in 1 .. Len(d) - 1 :
                     /\ d[i].start <= d[i + 1].start
                     /\ d[i].start + d[i].chunk_size = d[i + 1].start
                /\ PlanDone(j) => SumSizes(d) = remote[j].total

\* C1 witness: a finished plan of at least three descriptors with a shorter last one
TilingWitness ==
    \E j \in Jobs :
        /\ PlanDone(j)
        /\ Len(tasks[j]) >= 3
        /\ tasks[j][Len(tasks[j])].chunk_size < tasks[j][1].chunk_size

\* C2: threshold policy.  Below 4 MiB (totalBytes = 0 included) or without range
\* support the plan yields exactly one descriptor, {start: 0, size: totalBytes}.
ThresholdPolicy ==
    \A j \in Jobs :
        (PlanDone(j) /\ (remote[j].total < Threshold \/ ~remote[j].accept_ranges)) =>
            /\ Len(tasks[j]) = 1
            /\ tasks[j][1].start = 0
            /\ tasks[j][1].chunk_size = remote[j].total

\* C3: with range support and totalBytes >= 4 MiB every descriptor but the last has
\* size ceil(totalBytes / workerCount) and the last holds the remainder; 10,000,000
\* bytes and 4 workers give 4 descriptors of 2,500,000 bytes.
CeilChunkSize ==
    \A j \in Jobs :
        (PlanDone(j) /\ remote[j].accept_ranges /\ remote[j].total >= Threshold) =>
            LET d == tasks[j]
                c == CeilDiv(remote[j].total, workers)
            IN  /\ \A i \in 1 .. Len(d) - 1 : d[i].chunk_size = c
                /\ d[Len(d)].chunk_size = remote[j].total - c * (Len(d) - 1)
                /\ (remote[j].total = 10000000 /\ workers = 4) =>
                     /\ Len(d) = 4
                     /\ \A i \in 1 .. 4 :
                          d[i].start = 2500000 * (i - 1) /\ d[i].chunk_size = 2500000

\* ------------------------------------------------------------- the job's claims
\* the bytes of the resource range  start .. start+size-1  that the file holds
HoldsBytesOf(E, start, size) ==
    \E e \in E : e.src < start + size /\ e.src + (e.hi - e.lo) > start

\* C4: fetch integrity.  A chunk whose fetch ended with a body of another length
\* than the descriptor's size has failed, its save is never reached, no byte of its
\* range is in the file, and its job is neither verified nor Done.
FetchIntegrity ==
    \A j \in Jobs : \A i \in 1 .. Len(tasks[j]) :
        LET t == tasks[j][i]
        IN  (t.pc # "fetch" /\ t.data # t.chunk_size) =>
                /\ t.pc = "err"
                /\ ~HoldsBytesOf(disk[j].ext, t.start, t.chunk_size)
                /\ jpc[j] \notin {"spawn_save", "join_save", "verify", "verifying", "done"}

\* C4 witness: a body one byte short; the job has Failed while a sibling chunk was written
FetchIntegrityWitness ==
    \E j \in Jobs : \E i \in 1 .. Len(tasks[j]) :
        /\ tasks[j][i].pc = "err"
        /\ tasks[j][i].data = tasks[j][i].chunk_size - 1
        /\ jpc[j] = "failed"
        /\ disk[j].ext # {}

\* the chunk writes of job j: every chunk of the plan has a task, and all have ended Ok
WritesComplete(j) ==
    /\ SumSizes(tasks[j]) = remote[j].total
    /\ \A i \in 1 .. Len(tasks[j]) : tasks[j][i].pc = "ok"

\* C6: a job is verified only after every chunk write of its plan has completed,
\* and it is Done only if the file's size then equals totalBytes.
VerifyAfterWrites ==
    \A j \in Jobs :
        /\ jpc[j] \in {"verify", "verifying", "done"} => WritesComplete(j)
        /\ jpc[j] = "done" => FileLen(disk[j].ext) = remote[j].total

\* C6 witness: a Done job of a plan of several chunks
VerifyAfterWritesWitness ==
    \E j \in Jobs : jpc[j] = "done" /\ Len(tasks[j]) >= 2

\* the file after the chunks ts were saved one at a time in the order p
RECURSIVE SeqWrite(_, _, _)
SeqWrite(E, ts, p) ==
    IF p = <<>> THEN E
    ELSE SeqWrite(WriteAt(E, ts[Head(p)].start, ts[Head(p)].start, ts[Head(p)].data),
                  ts, Tail(p))

Orders(n) == {p \in [1 .. n -> 1 .. n] : \A a, b \in 1 .. n : a # b => p[a] # p[b]}

\* every chunk of job j's plan has a save task and every save has written
AllWritten(j) ==
    /\ jpc[j] \in {"join", "join_save", "verify", "verifying", "done", "failed"}
    /\ \A i \in 1 .. Len(tasks[j]) : tasks[j][i].pc \in {"inc", "ok"}

\* C7: concurrent write safety.  Once all chunks of a plan were written by the
\* concurrent tasks, the file's content and size are those of writing the chunks
\* one at a time, in whatever order.
ConcurrentWriteSafety ==
    \A j \in Jobs :
        AllWritten(j) =>
            \A p \in Orders(Len(tasks[j])) :
                /\ disk[j].ext = SeqWrite({}, tasks[j], p)
                /\ FileLen(disk[j].ext) = FileLen(SeqWrite({}, tasks[j], p))

\* C7 witness: three chunks written, the last write not that of the last chunk
ConcurrentWriteWitness ==
    \E j \in Jobs :
        /\ AllWritten(j)
        /\ Len(tasks[j]) >= 3
        /\ cursor[j] # remote[j].total

\* C8: a job whose metadata probe failed has done no file I/O: the destination is
\* neither created nor truncated.
ProbeFailNoFileIO ==
    \A j \in Jobs : probe[j] = "err" => disk[j].state # "created"

\* sum of the sizes of the tasks of ts whose pc is in pcs
RECURSIVE SumWhere(_, _)
SumWhere(ts, pcs) ==
    IF ts = <<>> THEN 0
    ELSE (IF Head(ts).pc \in pcs THEN Head(ts).chunk_size ELSE 0) + SumWhere(Tail(ts), pcs)

ProgressInv ==
    \A j \in Jobs :
        /\ pb[j] = SumWhere(tasks[j], {"ok"})
        /\ pb[j] <= SumWhere(tasks[j], {"inc", "ok"})
        /\ SumWhere(tasks[j], {"inc", "ok"}) <= remote[j].total
        /\ jpc[j] = "done" => pb[j] = remote[j].total

BatchSuccess ==
    /\ result = "ok" =>
         \A j \in Jobs :
            /\ jpc[j] = "done"
            /\ disk[j].state = "created"
            /\ FileLen(disk[j].ext) = remote[j].total
    /\ result = "err" => jpc[joined + 1] = "failed"
    /\ (\E j \in Jobs : jpc[j] = "failed") => result # "ok"

\* C10 witness: a batch of several tasks returned Ok, one file not empty
BatchSuccessWitness ==
    /\ result = "ok"
    /\ Len(remote) >= 2
    /\ \E j \in Jobs : disk[j].ext # {}

\* ------------------------------------------------------------- a damaged chunk set
\* the chunks  for chunk in it  yields, each fetched in full
RECURSIVE PlanOf(_)
PlanOf(it) ==
    LET n == ChunksNext(it)
    IN  IF n.some
        THEN <<[start |-> n.chunk.start, chunk_size |-> n.chunk.chunk_size,
                data |-> n.chunk.chunk_size]>> \o PlanOf(n.it)
        ELSE <<>>

RECURSIVE Exhausted(_)
Exhausted(it) == IF ChunksNext(it).some THEN Exhausted(ChunksNext(it).it) ELSE it

Dropped(s, k) == SubSeq(s, 1, k - 1) \o SubSeq(s, k + 1, Len(s))
Duplicated(s, k) == SubSeq(s, 1, k) \o SubSeq(s, k, Len(s))
Damaged(s) == {Dropped(s, k) : k \in 1 .. Len(s)} \cup {Duplicated(s, k) : k \in 1 .. Len(s)}

\* Chunks::download_then_save at its call of ChunkVec::save, the ChunkVec being the
\* fetched plan with one chunk dropped or one chunk twice
FaultTotals == {Threshold, 10000000}
FaultInit ==
    /\ remote \in {<<[ok |-> TRUE, accept_ranges |-> TRUE, total |-> t]>> : t \in FaultTotals}
    /\ workers \in 2 .. MaxWorkers
    /\ policy = "DownloadThenSave"
    /\ disk = [j \in Jobs |-> [state |-> "created", ext |-> {}]]
    /\ cursor = [j \in Jobs |-> 0]
    /\ lock = [j \in Jobs |-> 0]
    /\ spawned = 1
    /\ joined = 0
    /\ result = "none"
    /\ jpc = [j \in Jobs |-> "spawn_save"]
    /\ probe = [j \in Jobs |-> "ok"]
    /\ created = [j \in Jobs |-> "ok"]
    /\ chunks = [j \in Jobs |-> ChunksNew(remote[j].accept_ranges, remote[j].total, workers)]
    /\ iter = [j \in Jobs |-> Exhausted(chunks[j])]
    /\ tasks = [j \in Jobs |-> <<>>]
    /\ cvec \in [Jobs -> Damaged(PlanOf(chunks[1]))]
    /\ jidx = [j \in Jobs |-> Len(PlanOf(chunks[j]))]
    /\ pb = [j \in Jobs |-> 0]
    /\ pblen = [j \in Jobs |-> remote[j].total]

FaultNext ==
    \/ EngineJoin
    \/ \E j \in Jobs : JoinTask(j)
    \/ \E j \in Jobs : JoinEnd(j)
    \/ \E j \in Jobs : SaveSpawn(j)
    \/ \E j \in Jobs : VerifyLock(j)
    \/ \E j \in Jobs : VerifyCheck(j)
    \/ \E j \in Jobs : \E i \in 1 .. Len(tasks[j]) : Lock(j, i)
    \/ \E j \in Jobs : \E i \in 1 .. Len(tasks[j]) : Seek(j, i)
    \/ \E j \in Jobs : \E i \in 1 .. Len(tasks[j]) : Write(j, i)
    \/ \E j \in Jobs : \E i \in 1 .. Len(tasks[j]) : Inc(j, i)

SpecFault == FaultInit /\ [][FaultNext]_vars

Chunk(t) == [start |-> t.start, chunk_size |-> t.chunk_size, data |-> t.data]

\* C5: verification detects a dropped or duplicated chunk.  A job whose plan has at
\* least two chunks ends Done only if the chunks it wrote are the chunks of the plan,
\* each once.
VerificationDetectsFault ==
    \A j \in Jobs :
        (jpc[j] = "done" /\ Len(PlanOf(chunks[j])) >= 2) =>
            [i \in 1 .. Len(tasks[j]) |-> Chunk(tasks[j][i])] = PlanOf(chunks[j])

\* ------------------------------------------------------------- running on
\* The runtime keeps polling the spawned tasks: some enabled step is eventually
\* taken.  No step leads back to an earlier state, so this lets no task starve.
SpecBatchLive == BatchInit /\ [][Next]_vars /\ WF_vars(Next)

JobEnded(j) == jpc[j] \in {"done", "failed"}

\* the probe, the file creation and every fetch and write of job j have succeeded
OwnOpsOk(j) ==
    /\ probe[j] = "ok"
    /\ created[j] = "ok"
    /\ \A i \in 1 .. Len(tasks[j]) : tasks[j][i].pc # "err"

\* C11: job independence.  Whatever its siblings do and whatever download has
\* returned, every spawned job runs on to its end, and if its own probe, file
\* creation, fetches and writes succeed it ends with all its chunks written and
\* its verification done.
JobIndependence ==
    \A j \in 1 .. MaxTasks :
        []((j \in Jobs /\ jpc[j] # "idle") =>
              <>(j \in Jobs /\ JobEnded(j) /\ (OwnOpsOk(j) => WritesComplete(j))))

\* C11 witness: download has returned the first task's failure while the second
\* job, none of whose operations failed, is still before its verification
JobIndependenceWitness ==
    /\ result = "err"
    /\ joined = 0
    /\ Len(remote) >= 2
    /\ jpc[2] = "join"
    /\ OwnOpsOk(2)

\* ------------------------------------------------------------- ordering
\* a save of job j has started: a save task exists, holds the lock or has written
SaveStarted(j) ==
    \/ lock[j] > 0
    \/ disk[j].ext # {}
    \/ \E i \in 1 .. Len(tasks[j]) : tasks[j][i].pc \in {"lock", "seek", "write", "inc", "ok"}

\* the save tasks and the ChunkVec of job j hold the whole plan, fetched in full
AllFetched(j) ==
    [i \in 1 .. Len(tasks[j]) |-> Chunk(tasks[j][i])] \o cvec[j] = PlanOf(chunks[j])

\* C12: FetchThenWrite ordering.  Under DownloadThenSave no save starts before
\* every fetch of the plan has succeeded and been joined, and verification starts
\* only after every save task has been joined Ok.
FetchThenWriteOrder ==
    policy = "DownloadThenSave" =>
        \A j \in Jobs :
            /\ SaveStarted(j) =>
                 /\ AllFetched(j)
                 /\ jpc[j] \in {"spawn_save", "join_save", "verify", "verifying",
                                "done", "failed"}
            /\ jpc[j] \in {"verify", "verifying", "done"} =>
                 /\ jidx[j] = Len(tasks[j])
                 /\ WritesComplete(j)

\* C12 witness: a save task is writing, another waits for the lock
FetchThenWriteWitness ==
    /\ policy = "DownloadThenSave"
    /\ \E j \in Jobs : \E a, b \in 1 .. Len(tasks[j]) :
         tasks[j][a].pc = "write" /\ tasks[j][b].pc = "lock"

\* ------------------------------------------------------------- the critical section
\* the chunk tasks of job j between their lock and the end of their write
InCritical(j) == {i \in 1 .. Len(tasks[j]) : tasks[j][i].pc \in {"seek", "write"}}

\* C13: file-handle critical section.  At most one task of a job is between taking
\* the file lock and finishing its write, the lock is held exactly by that task (or
\* by verify), never by a task that fetches, and a fetch is never blocked by it.
CriticalSection ==
    \A j \in Jobs :
        /\ Cardinality(InCritical(j)) + (IF jpc[j] = "verifying" THEN 1 ELSE 0) <= 1
        /\ \A i \in 1 .. Len(tasks[j]) : (lock[j] = i) <=> (i \in InCritical(j))
        /\ (lock[j] = -1) <=> (jpc[j] = "verifying")
        /\ lock[j] \in {-1, 0} \cup InCritical(j)
        /\ \A i \in 1 .. Len(tasks[j]) : tasks[j][i].pc = "fetch" => ENABLED Fetch(j, i)

\* C13 witness: one chunk is being written while another is fetched and a third
\* waits for the lock
CriticalSectionWitness ==
    \E j \in Jobs : \E a, b, c \in 1 .. Len(tasks[j]) :
        /\ tasks[j][a].pc = "write"
        /\ lock[j] = a
        /\ tasks[j][b].pc = "fetch"
        /\ tasks[j][c].pc = "lock"

\* ------------------------------------------------------------- ChunkVec::verify
\* s with the chunk c put after the last chunk whose start is not larger
RECURSIVE InsertByStart(_, _)
InsertByStart(s, c) ==
    IF s = <<>> THEN <<c>>
    ELSE IF c.start < Head(s).start THEN <<c>> \o s
    ELSE <<Head(s)>> \o InsertByStart(Tail(s), c)

\* self.chunks.sort_by_key(|c| c.start), a stable sort
RECURSIVE SortByStart(_)
SortByStart(s) ==
    IF s = <<>> THEN <<>>
    ELSE InsertByStart(SortByStart(SubSeq(s, 1, Len(s) - 1)), s[Len(s)])

\* ChunkVec::verify returns Ok: flag is first.start == 0 when there is a first chunk
\* (the else-if on last is reached only by an empty vector, and then yields false),
\* a true flag bails, and so does a window whose chunks do not meet
ChunkVecVerify(cs, total) ==
    LET s == SortByStart(cs)
        flag == IF Len(s) > 0 THEN s[1].start = 0 ELSE FALSE
    IN  /\ ~flag
        /\ \A i \in 1 .. Len(s) - 1 : s[i].start + s[i].chunk_size = s[i + 1].start

\* the chunks, sorted by start, begin at 0, meet each other and end at total
CompleteSet(cs, total) ==
    LET s == SortByStart(cs)
    IN  IF s = <<>> THEN total = 0
        ELSE /\ s[1].start = 0
             /\ \A i \in 1 .. Len(s) - 1 : s[i].start + s[i].chunk_size = s[i + 1].start
             /\ s[Len(s)].start + s[Len(s)].chunk_size = total

\* cvec[j] is the ChunkVec that Chunks::download returned
IsChunkVec(j) == jpc[j] = "spawn_save" /\ tasks[j] = <<>>

\* C14: ChunkVec::verify succeeds exactly on the complete chunk sets, in particular
\* on the ChunkVec obtained by fetching every descriptor of a plan.
ChunkVecVerifyComplete ==
    \A j \in Jobs :
        IsChunkVec(j) =>
            /\ ChunkVecVerify(cvec[j], chunks[j].total) <=> CompleteSet(cvec[j], chunks[j].total)
            /\ ChunkVecVerify(cvec[j], chunks[j].total)

\* ------------------------------------------------------------- the first failure
\* the future the join loop stopped at is the first failed job in declaration order
FirstFailed(k) == k \in Jobs /\ jpc[k] = "failed" /\ \A m \in 1 .. k - 1 : jpc[m] = "done"

\* C15: the error Downloader::download returns is that of the failed job that comes
\* first in declaration order, whatever the order of the failures in time: while an
\* earlier job is still running no error is returned, and after the error no later
\* future is joined.
FirstFailureReturned ==
    /\ [](result = "err" => FirstFailed(joined + 1))
    /\ [][result = "err" => UNCHANGED <<result, joined>>]_vars

\* the batch returned the first job's failure while the second job had failed too
FirstFailureWitness ==
    /\ result = "err"
    /\ joined = 0
    /\ Len(remote) >= 2
    /\ jpc[1] = "failed"
    /\ jpc[2] = "failed"

\* ------------------------------------------------------------- termination
\* One task with every request and every file operation returning: each enabled step
\* of the tokio runtime is eventually taken.  The state graph has no cycle, so weak
\* fairness of Next is all the scheduling that is needed.
SpecLive == Init /\ [][Next]_vars /\ WF_vars(Next)

\* task i of job j waits for the file mutex
WaitsLock(j, i) == j \in Jobs /\ i \in 1 .. Len(tasks[j]) /\ tasks[j][i].pc = "lock"

\* task i of job j holds the file mutex
HoldsLock(j, i) == j \in Jobs /\ lock[j] = i

\* C16: every spawned job eventually reaches Done or Failed under both policies; every
\* chunk writer and the final verify that wait for the file mutex eventually hold it;
\* a job that is Done or Failed keeps that result and is not started again.
Termination ==
    /\ \A j \in 1 .. MaxTasks :
         [](j \in Jobs /\ jpc[j] # "idle" => <>(j \in Jobs /\ JobEnded(j)))
    /\ \A j \in 1 .. MaxTasks : \A i \in 1 .. MaxWorkers :
         [](WaitsLock(j, i) => <>HoldsLock(j, i))
    /\ \A j \in 1 .. MaxTasks :
         [](j \in Jobs /\ jpc[j] = "verify" => <>HoldsLock(j, -1))
    /\ [][\A j \in Jobs : JobEnded(j) => jpc'[j] = jpc[j]]_vars

\* two writers wait for the mutex while a third task holds it
TerminationWitness ==
    \E j \in Jobs : \E a, b, c \in 1 .. Len(tasks[j]) :
        /\ a # b
        /\ WaitsLock(j, a)
        /\ WaitsLock(j, b)
        /\ HoldsLock(j, c)

\* ------------------------------------------------------------- fan-out
\* the chunk tasks of job j whose range GET has not returned
InFlight(j) == {i \in 1 .. Len(tasks[j]) : tasks[j][i].pc = "fetch"}

\* Chunks::new took the single-shot branch
SingleShot(j) == ~remote[j].accept_ranges \/ remote[j].total < Threshold

\* C17: fan-out bound.  The plan yields at most workerCount descriptors, exactly one
\* in single-shot mode, so at most max(1, workerCount) chunk fetches of one resource
\* are in flight at any moment.
FanOutBound ==
    \A j \in Jobs :
        Planning(j) =>
            /\ Len(tasks[j]) <= workers
            /\ (PlanDone(j) /\ SingleShot(j)) => Len(tasks[j]) = 1
            /\ Cardinality(InFlight(j)) <= Max({1, workers})

\* ------------------------------------------------------------- the range header
\* Chunk::download: the last byte asked for, self.start + self.chunk_size - 1
RangeEnd(t) == t.start + t.chunk_size - 1

\* the u64 subtraction in self.start + self.chunk_size - 1 goes below zero
RangeUnderflows(t) == t.start + t.chunk_size < 1

\* C18: every descriptor the plan yields has size >= 1, so the range of every request
\* is bytes=start-end with start <= end < totalBytes and the subtraction that computes
\* end never underflows.
RangeWellFormed ==
    \A j \in Jobs : \A i \in 1 .. Len(tasks[j]) :
        LET t == tasks[j][i]
        IN  /\ t.chunk_size >= 1
            /\ ~RangeUnderflows(t)
            /\ t.start <= RangeEnd(t)
            /\ RangeEnd(t) < remote[j].total

\* a finished plan whose last descriptor asks for the single last byte of the resource
RangeWitness ==
    \E j \in Jobs :
        /\ PlanDone(j)
        /\ LET t == tasks[j][Len(tasks[j])]
           IN  /\ Len(tasks[j]) >= 1
               /\ t.chunk_size = 1
               /\ RangeEnd(t) = t.start
               /\ t.start = remote[j].total - 1

\* ------------------------------------------------------------- no cancellation
\* chunk task i of the failed pipelined job j is at one of the positions pcs
SiblingAt(j, i, pcs) ==
    /\ policy = "DownloadAndSave"
    /\ j \in Jobs
    /\ jpc[j] = "failed"
    /\ i \in 1 .. Len(tasks[j])
    /\ tasks[j][i].pc \in pcs

\* C19: under DownloadAndSave the chunk tasks of a job that has returned Failed are
\* not cancelled: a sibling still fetching ends its fetch, a sibling whose fetch
\* succeeded still takes the file mutex, and a sibling about to write still performs
\* its write, so the file is modified after the job has reported Failed.
NoSiblingCancellation ==
    \A j \in 1 .. MaxTasks : \A i \in 1 .. MaxWorkers :
        /\ [](SiblingAt(j, i, {"fetch"}) => <>SiblingAt(j, i, {"lock", "err"}))
        /\ [](SiblingAt(j, i, {"lock"}) => <>(SiblingAt(j, i, {"seek"}) /\ HoldsLock(j, i)))
        /\ [](SiblingAt(j, i, {"write"}) => <>SiblingAt(j, i, {"inc", "err"}))
        /\ [](SiblingAt(j, i, {"inc"}) => <>SiblingAt(j, i, {"ok"}))

\* the job has failed, one sibling has written its bytes since, another is about to
NoCancellationWitness ==
    \E j \in Jobs : \E a, b \in 1 .. Len(tasks[j]) :
        /\ SiblingAt(j, a, {"write"})
        /\ SiblingAt(j, b, {"ok"})
        /\ HoldsBytesOf(disk[j].ext, tasks[j][b].start, tasks[j][b].chunk_size)
        /\ jidx[j] < b

\* ------------------------------------------------------------- fetch-then-write failure
\* Chunk::download of the task returned Err: the request failed or the body had
\* another length than chunk_size
FetchFailed(t) == t.pc = "err" /\ t.data # t.chunk_size

\* a chunk of job j's plan has failed its fetch under DownloadThenSave
FetchFailedJob(j) ==
    /\ policy = "DownloadThenSave"
    /\ j \in Jobs
    /\ \E i \in 1 .. Len(tasks[j]) : FetchFailed(tasks[j][i])

HasWritten(j, i) == tasks[j][i].pc \in {"inc", "ok"}

\* the tasks of job j whose payload, written at their start, covers the offset x
WritersOf(j, x) ==
    {i \in 1 .. Len(tasks[j]) :
        /\ HasWritten(j, i)
        /\ tasks[j][i].start <= x
        /\ x < tasks[j][i].start + tasks[j][i].data}

\* the offsets at which the number of writers can change: the first and the last
\* byte of every chunk and of the resource
EdgeOffsets(j) ==
    {x \in {0, remote[j].total - 1}
           \cup {tasks[j][i].start : i \in 1 .. Len(tasks[j])}
           \cup {tasks[j][i].start + tasks[j][i].data - 1 : i \in 1 .. Len(tasks[j])} :
        0 <= x /\ x < remote[j].total}

\* this step is the write_all of task i of job j
WriteStep(j, i) ==
    /\ i \in 1 .. Len(tasks[j])
    /\ tasks[j][i].pc = "write"
    /\ tasks'[j][i].pc \in {"inc", "err"}

\* C21: whenever a job ends Done, every byte offset in [0, totalBytes) has been written
\* exactly once, by the one chunk of the plan whose range contains it and with a
\* payload of that chunk's size, and no offset >= totalBytes has been written.  The
\* file changes only by the write of a chunk at that chunk's start and within the
\* resource, and a chunk that has written never writes again.
EveryByteOnce ==
    /\ [](\A j \in Jobs :
            jpc[j] = "done" =>
                /\ [i \in 1 .. Len(tasks[j]) |-> Chunk(tasks[j][i])] = PlanOf(chunks[j])
                /\ \A i \in 1 .. Len(tasks[j]) :
                     /\ tasks[j][i].pc = "ok"
                     /\ tasks[j][i].data = tasks[j][i].chunk_size
                     /\ tasks[j][i].start + tasks[j][i].data <= remote[j].total
                /\ \A x \in EdgeOffsets(j) : Cardinality(WritersOf(j, x)) = 1
                /\ disk[j].ext = IF remote[j].total = 0 THEN {}
                                 ELSE {[lo |-> 0, hi |-> remote[j].total, src |-> 0]})
    /\ [][\A j \in Jobs :
            /\ disk'[j].ext # disk[j].ext =>
                 \E i \in 1 .. Len(tasks[j]) :
                     /\ WriteStep(j, i)
                     /\ cursor[j] = tasks[j][i].start
                     /\ cursor'[j] <= tasks[j][i].start + tasks[j][i].chunk_size
                     /\ cursor'[j] <= remote[j].total
            /\ \A i \in 1 .. Len(tasks[j]) :
                 HasWritten(j, i) =>
                     /\ i <= Len(tasks'[j])
                     /\ tasks'[j][i].pc \in {"inc", "ok"}]_vars

\* a Done job of three chunks and more whose first chunk was the last to write
EveryByteOnceWitness ==
    \E j \in Jobs :
        /\ jpc[j] = "done"
        /\ Len(tasks[j]) >= 3
        /\ cursor[j] = tasks[j][1].start + tasks[j][1].data
        /\ remote[j].total >= Threshold

====
